---- MODULE Spec2Model ----
(***************************************************************************)
(* Turn-by-turn navigation core of map-ui: the NavigationProvider state    *)
(* (contexts/NavigationContext.tsx), the ActiveNavigationView component    *)
(* (components/Navigation/ActiveNavigationView.tsx) that feeds it position *)
(* samples and reroutes, the Home page that mounts the view only while     *)
(* mode = active, and SelectedLocationPanel.handleStart that begins a      *)
(* session.                                                                *)
(*                                                                         *)
(* Coordinates are points on one meridian, given in metres from a          *)
(* reference point; the haversine distance of two such points is the       *)
(* absolute difference.  Time advances in ticks of one second.  A handler  *)
(* runs to completion together with the re-render and the effects that     *)
(* its state updates cause.                                                *)
(***************************************************************************)
EXTENDS Integers, Sequences, FiniteSets, TLC

VARIABLES
    nav,           \* NavigationProvider: navigationState
    position,      \* Home: position (last LocationPoint delivered)
    session,       \* number of ActiveNavigationView instances mounted so far
    lastProcessed, \* ActiveNavigationView: lastProcessedLocationRef.current
    timer,         \* ActiveNavigationView: pending setTimeout of rerouteTimeoutRef
    isReroutingRef,\* ActiveNavigationView: isReroutingRef.current
    requests,      \* calculateRoute calls awaiting their response
    token,         \* whether NEXT_PUBLIC_MAPBOX_TOKEN is configured
    offAge,        \* seconds for which nav.isOffRoute has been true without a break
    arrivals,      \* arrivals detected by the ActiveNavigationView mounted last
    ev,            \* the last event handled
    pre,           \* navigationState before the last event
    preTimer,      \* the pending timeout before the last event
    order,         \* how the sample of the last event compares with
                   \* lastProcessedLocationRef.current before the event
    arg,           \* the route, destination and origin passed by the last event,
                   \* and the session whose request a response answers
    trail,         \* the provider operations of the last event with the mode
                   \* before and after each
    timeouts,      \* number of timeouts set by the debounce effect that are
                   \* neither cleared nor expired
    failed,        \* a reroute request failed in the mounted view and the view
                   \* has issued no request since
    polyline,      \* distanceToRouteSegment: the routeCoordinates of the call
    probe,         \* distanceToRouteSegment: the point of the call
    measured,      \* distanceToRouteSegment: the value returned, NoPoint before
    storage,       \* localStorage['map-tracking-trips']: the stored trips
    storageBefore  \* the stored trips before the last saveTrip

vars == <<nav, position, session, lastProcessed, timer, isReroutingRef,
          requests, token, offAge, arrivals, ev, pre, preTimer, order, arg,
          trail, timeouts, failed, polyline, probe, measured, storage, storageBefore>>

\* the variables of a call of distanceToRouteSegment on its own
polylineCall == <<polyline, probe, measured>>

\* the variables of the trip storage
tripStorage == <<storage, storageBefore>>

----------------------------------------------------------------------------
(* Bounds of the model *)

MaxSessions == 2
MaxTs == 2

----------------------------------------------------------------------------
(* Program constants *)

STEP_ADVANCE_THRESHOLD == 30
ARRIVAL_THRESHOLD == 30
OFF_ROUTE_THRESHOLD == 50
DebounceSeconds == 3

\* offAge is counted up to one second past the debounce delay
AgeCap == DebounceSeconds + 1
Infinity == 1000000

NoPoint == -1
NoTimer == -1
NoLocation == [timestamp |-> 0, point |-> NoPoint]

----------------------------------------------------------------------------
(* Routes, destinations and position samples drawn on by the model *)

Points == {0, 370, 389}

Samples == [timestamp : 1..MaxTs, point : Points]

Step(d, t, m) == [distance |-> d, duration |-> t, maneuver |-> m]

RouteOf(id) ==
    CASE id = "A" -> [distance |-> 1000, duration |-> 120,
                      geometry |-> <<50, 400, 1000>>,
                      steps |-> <<Step(400, 40, 400), Step(600, 80, 1000)>>]
      [] id = "B" -> [distance |-> 600, duration |-> 90,
                      geometry |-> <<100, 389, 400, 1000>>,
                      steps |-> <<Step(100, 20, 389), Step(200, 30, 400),
                                  Step(300, 40, 1000)>>]
      [] id = "C" -> [distance |-> 300, duration |-> 30,
                      geometry |-> <<100, 400>>,
                      steps |-> <<Step(289, 28, 389), Step(11, 2, 400)>>]

DestCoordinates(d) == IF d = "D1" THEN 1000 ELSE 400

RoutesTo(d) == IF d = "D1" THEN {"A", "B"} ELSE {"C"}

Destinations == {"D1", "D2"}

\* the origins captured by SelectedLocationPanel when a destination is chosen
Origins == {0, 370}

----------------------------------------------------------------------------
(* Geometry kernel *)

Abs(x) == IF x < 0 THEN -x ELSE x

Min2(a, b) == IF a < b THEN a ELSE b

calculateDistanceBetweenPoints(point1, point2) == Abs(point2 - point1)

\* segment loop that measures only the start of each segment
RECURSIVE SegmentLoop_StartOnly(_, _, _, _)
SegmentLoop_StartOnly(point, routeCoordinates, i, minDistance) ==
    IF i > Len(routeCoordinates) - 1 THEN minDistance
    ELSE LET distToStart == calculateDistanceBetweenPoints(point, routeCoordinates[i])
         IN SegmentLoop_StartOnly(point, routeCoordinates, i + 1,
                                  Min2(minDistance, distToStart))

RECURSIVE SegmentLoop(_, _, _, _)
SegmentLoop(point, routeCoordinates, i, minDistance) ==
    IF i > Len(routeCoordinates) - 1 THEN minDistance
    ELSE LET distToStart == calculateDistanceBetweenPoints(point, routeCoordinates[i])
             distToEnd == calculateDistanceBetweenPoints(point, routeCoordinates[i + 1])
         IN SegmentLoop(point, routeCoordinates, i + 1,
                        Min2(minDistance, Min2(distToStart, distToEnd)))

distanceToRouteSegment(point, routeCoordinates) ==
    IF Len(routeCoordinates) < 2 THEN Infinity
    ELSE SegmentLoop(point, routeCoordinates, 1, Infinity)

----------------------------------------------------------------------------
(* NavigationProvider *)

initialNavigationState ==
    [mode |-> "idle", route |-> "none", destination |-> "none",
     origin |-> NoPoint, currentStepIndex |-> 0, distanceToNextManeuver |-> 0,
     isOffRoute |-> FALSE, isRerouting |-> FALSE, eta |-> NoPoint,
     remainingDistance |-> 0, remainingDuration |-> 0]

Max0(x) == IF x < 0 THEN 0 ELSE x

FirstStepDistance(route) ==
    IF Len(RouteOf(route).steps) >= 1 THEN RouteOf(route).steps[1].distance ELSE 0

\* setPreviewRoute that takes the first step's distance for the remaining one
setPreviewRoute_FirstStepRemaining(route, destination, origin) ==
    [mode |-> "preview", route |-> route, destination |-> destination,
     origin |-> origin, currentStepIndex |-> 0,
     distanceToNextManeuver |-> FirstStepDistance(route),
     isOffRoute |-> FALSE, isRerouting |-> FALSE,
     eta |-> RouteOf(route).duration,
     remainingDistance |-> FirstStepDistance(route),
     remainingDuration |-> RouteOf(route).duration]

\* setPreviewRoute that enters active navigation at once
setPreviewRoute_StartsActive(route, destination, origin) ==
    [mode |-> "active", route |-> route, destination |-> destination,
     origin |-> origin, currentStepIndex |-> 0,
     distanceToNextManeuver |-> FirstStepDistance(route),
     isOffRoute |-> FALSE, isRerouting |-> FALSE,
     eta |-> RouteOf(route).duration,
     remainingDistance |-> RouteOf(route).distance,
     remainingDuration |-> RouteOf(route).duration]

setPreviewRoute(route, destination, origin) ==
    [mode |-> "preview", route |-> route, destination |-> destination,
     origin |-> origin, currentStepIndex |-> 0,
     distanceToNextManeuver |-> FirstStepDistance(route),
     isOffRoute |-> FALSE, isRerouting |-> FALSE,
     eta |-> RouteOf(route).duration,
     remainingDistance |-> RouteOf(route).distance,
     remainingDuration |-> RouteOf(route).duration]

\* rendered is the navigationState of the render whose closure is called,
\* prev the state the queued updater is applied to
startActiveNavigation(rendered, prev) ==
    IF rendered.route # "none" THEN [prev EXCEPT !.mode = "active"] ELSE prev

\* startActiveNavigation that rejects a call without a route
startActiveNavigationThrows_OnNoRoute(rendered) == rendered.route = "none"

\* whether startActiveNavigation reports a failure to its caller: it returns
\* void, has no else branch and no throw statement
startActiveNavigationThrows(rendered) == FALSE

RECURSIVE SumFrom(_, _, _)
SumFrom(steps, i, field) ==
    IF i > Len(steps) THEN 0
    ELSE (IF field = "distance" THEN steps[i].distance ELSE steps[i].duration)
         + SumFrom(steps, i + 1, field)

\* updateNavigationProgress that counts the current step's full distance on
\* top of the distance to the next maneuver
updateNavigationProgress_NoSubtract(prev, currentLocation, distanceToNextManeuver, currentStepIndex) ==
    IF prev.route = "none" THEN prev
    ELSE LET steps == RouteOf(prev.route).steps
             sumDistance == SumFrom(steps, currentStepIndex + 1, "distance")
             remainingDuration == SumFrom(steps, currentStepIndex + 1, "duration")
             remainingDistance == sumDistance + distanceToNextManeuver
         IN [prev EXCEPT !.currentStepIndex = currentStepIndex,
                         !.distanceToNextManeuver = distanceToNextManeuver,
                         !.remainingDistance = Max0(remainingDistance),
                         !.remainingDuration = Max0(remainingDuration),
                         !.eta = remainingDuration,
                         !.origin = currentLocation]

\* currentStepIndex is 0-based as in the source; steps[k + 1] is the source's steps[k]
updateNavigationProgress(prev, currentLocation, distanceToNextManeuver, currentStepIndex) ==
    IF prev.route = "none" THEN prev
    ELSE LET steps == RouteOf(prev.route).steps
             sumDistance == SumFrom(steps, currentStepIndex + 1, "distance")
             remainingDuration == SumFrom(steps, currentStepIndex + 1, "duration")
             currentStepDistance ==
                 IF currentStepIndex + 1 <= Len(steps)
                 THEN steps[currentStepIndex + 1].distance ELSE 0
             remainingDistance == sumDistance - currentStepDistance + distanceToNextManeuver
         IN [prev EXCEPT !.currentStepIndex = currentStepIndex,
                         !.distanceToNextManeuver = distanceToNextManeuver,
                         !.remainingDistance = Max0(remainingDistance),
                         !.remainingDuration = Max0(remainingDuration),
                         !.eta = remainingDuration,
                         !.origin = currentLocation]

\* setOffRoute that also ends the rerouting in progress
setOffRoute_ClearsRerouting(prev, isOffRoute) ==
    [prev EXCEPT !.isOffRoute = isOffRoute, !.isRerouting = FALSE]

setOffRoute(prev, isOffRoute) == [prev EXCEPT !.isOffRoute = isOffRoute]

\* setRerouting as a setter of the one flag
setRerouting_OnlyFlag(prev, isRerouting) == [prev EXCEPT !.isRerouting = isRerouting]

setRerouting(prev, isRerouting) ==
    [prev EXCEPT !.isRerouting = isRerouting,
                 !.isOffRoute = IF isRerouting THEN prev.isOffRoute ELSE FALSE]

\* updateRoute that replaces the route and nothing else
updateRoute_OnlyRoute(prev, route) == [prev EXCEPT !.route = route]

\* updateRoute that keeps the progress made on the old route
updateRoute_KeepsStepIndex(prev, route) ==
    [prev EXCEPT !.route = route,
                 !.isOffRoute = FALSE,
                 !.isRerouting = FALSE,
                 !.remainingDistance = RouteOf(route).distance,
                 !.remainingDuration = RouteOf(route).duration,
                 !.eta = RouteOf(route).duration]

updateRoute(prev, route) ==
    [prev EXCEPT !.route = route,
                 !.currentStepIndex = 0,
                 !.distanceToNextManeuver = FirstStepDistance(route),
                 !.isOffRoute = FALSE,
                 !.isRerouting = FALSE,
                 !.remainingDistance = RouteOf(route).distance,
                 !.remainingDuration = RouteOf(route).duration,
                 !.eta = RouteOf(route).duration]

\* endNavigation that forgets to clear the destination
endNavigation_KeepsDestination(prev) ==
    [initialNavigationState EXCEPT !.destination = prev.destination]

\* endNavigation that leaves the navigation state as it is
endNavigation_NoReset(prev) == prev

endNavigation(prev) == initialNavigationState

----------------------------------------------------------------------------
(* ActiveNavigationView *)

StepCount(n) == Len(RouteOf(n.route).steps)

CurrentStep(n) == RouteOf(n.route).steps[n.currentStepIndex + 1]

\* step advance with the threshold included
NewStepIndex_Inclusive(n, currentPoint) ==
    LET distanceToManeuver ==
            calculateDistanceBetweenPoints(currentPoint, CurrentStep(n).maneuver)
    IN IF distanceToManeuver <= STEP_ADVANCE_THRESHOLD
          /\ n.currentStepIndex < StepCount(n) - 1
       THEN n.currentStepIndex + 1
       ELSE n.currentStepIndex

\* the step-advance decision of processLocationUpdate
NewStepIndex(n, currentPoint) ==
    LET distanceToManeuver ==
            calculateDistanceBetweenPoints(currentPoint, CurrentStep(n).maneuver)
    IN IF distanceToManeuver < STEP_ADVANCE_THRESHOLD
          /\ n.currentStepIndex < StepCount(n) - 1
       THEN n.currentStepIndex + 1
       ELSE n.currentStepIndex

\* the arrival test of processLocationUpdate
HasArrived(n, currentPoint) ==
    /\ n.destination # "none"
    /\ n.currentStepIndex >= StepCount(n) - 1
    /\ calculateDistanceBetweenPoints(currentPoint, DestCoordinates(n.destination))
           < ARRIVAL_THRESHOLD

\* off-route test with the threshold included
IsCurrentlyOffRoute_Inclusive(n, currentPoint) ==
    distanceToRouteSegment(currentPoint, RouteOf(n.route).geometry) >= OFF_ROUTE_THRESHOLD

\* the off-route test of processLocationUpdate
IsCurrentlyOffRoute(n, currentPoint) ==
    distanceToRouteSegment(currentPoint, RouteOf(n.route).geometry) > OFF_ROUTE_THRESHOLD

\* processLocationUpdate that reports the measured distance to the maneuver
\* just passed as the distance to the next one after an advance
processLocationUpdate_KeepsMeasuredDistance(n, location) ==
    IF n.route = "none" THEN n
    ELSE IF StepCount(n) = 0 THEN n
    ELSE IF n.currentStepIndex + 1 > StepCount(n) THEN n
    ELSE LET currentPoint == location.point
             distanceToManeuver ==
                 calculateDistanceBetweenPoints(currentPoint, CurrentStep(n).maneuver)
             newStepIndex == NewStepIndex(n, currentPoint)
             isCurrentlyOffRoute == IsCurrentlyOffRoute(n, currentPoint)
             n1 == IF isCurrentlyOffRoute # n.isOffRoute
                   THEN setOffRoute(n, isCurrentlyOffRoute) ELSE n
         IN IF HasArrived(n, currentPoint) THEN endNavigation(n)
            ELSE updateNavigationProgress(n1, currentPoint, distanceToManeuver,
                                          newStepIndex)

\* n is the navigationState of the render that created the callback; the
\* updaters it queues are applied to the same state, since every handler is
\* followed by a re-render before the next event
processLocationUpdate(n, location) ==
    IF n.route = "none" THEN n
    ELSE IF StepCount(n) = 0 THEN n
    ELSE IF n.currentStepIndex + 1 > StepCount(n) THEN n
    ELSE LET currentPoint == location.point
             distanceToManeuver ==
                 calculateDistanceBetweenPoints(currentPoint, CurrentStep(n).maneuver)
             newStepIndex == NewStepIndex(n, currentPoint)
             isCurrentlyOffRoute == IsCurrentlyOffRoute(n, currentPoint)
             n1 == IF isCurrentlyOffRoute # n.isOffRoute
                   THEN setOffRoute(n, isCurrentlyOffRoute) ELSE n
             newDistanceToManeuver ==
                 IF newStepIndex = n.currentStepIndex THEN distanceToManeuver
                 ELSE RouteOf(n.route).steps[newStepIndex + 1].distance
         IN IF HasArrived(n, currentPoint) THEN endNavigation(n)
            ELSE updateNavigationProgress(n1, currentPoint, newDistanceToManeuver,
                                          newStepIndex)

\* Home renders ActiveNavigationView only while mode = active
isActiveNavigation(n) == n.mode = "active"

\* location watcher effect that also skips a sample older than the last
\* processed one
WatchLocation_SkipsOlder(n, last, currentLocation) ==
    IF currentLocation = NoLocation THEN n
    ELSE IF last # NoLocation /\ last.timestamp >= currentLocation.timestamp THEN n
    ELSE processLocationUpdate(n, currentLocation)

\* location watcher effect without the comparison with the last processed
\* sample
WatchLocation_NoDedupe(n, last, currentLocation) ==
    IF currentLocation = NoLocation THEN n
    ELSE processLocationUpdate(n, currentLocation)

\* the location watcher effect: the sample is processed unless it repeats
\* the last processed one
WatchLocation(n, last, currentLocation) ==
    IF currentLocation = NoLocation THEN n
    ELSE IF last.timestamp = currentLocation.timestamp
            /\ last.point = currentLocation.point THEN n
    ELSE processLocationUpdate(n, currentLocation)

\* debounce effect that sets a timeout but never clears the pending one
RerouteEffect_KeepsTimer(old, new, pending, currentLocation, locationChanged) ==
    IF ~isActiveNavigation(new) THEN NoTimer
    ELSE IF locationChanged
            \/ old.isOffRoute # new.isOffRoute
            \/ old.isRerouting # new.isRerouting
            \/ old.destination # new.destination
         THEN IF new.isOffRoute /\ ~new.isRerouting /\ currentLocation # NoLocation
              THEN DebounceSeconds ELSE pending
         ELSE pending

\* debounce effect without the cleanup that runs when the view unmounts
RerouteEffect_NoUnmountCleanup(old, new, pending, currentLocation, locationChanged) ==
    IF ~isActiveNavigation(new) THEN pending
    ELSE IF locationChanged
            \/ old.isOffRoute # new.isOffRoute
            \/ old.isRerouting # new.isRerouting
            \/ old.destination # new.destination
         THEN IF new.isOffRoute /\ ~new.isRerouting /\ currentLocation # NoLocation
              THEN DebounceSeconds ELSE NoTimer
         ELSE pending

\* the reroute debounce effect: when one of its dependencies changed between
\* the render of old and the render of new, the pending timeout is cleared
\* and a new one of 3 seconds is set if off-route and not rerouting
RerouteEffect(old, new, pending, currentLocation, locationChanged) ==
    IF ~isActiveNavigation(new) THEN NoTimer
    ELSE IF locationChanged
            \/ old.isOffRoute # new.isOffRoute
            \/ old.isRerouting # new.isRerouting
            \/ old.destination # new.destination
         THEN IF new.isOffRoute /\ ~new.isRerouting /\ currentLocation # NoLocation
              THEN DebounceSeconds ELSE NoTimer
         ELSE pending

\* debounce effect that sets a timeout without clearing the one it holds
PendingTimeouts_NoClear(old, new, count, pending, currentLocation, locationChanged) ==
    IF ~isActiveNavigation(new) THEN (IF pending # NoTimer THEN count - 1 ELSE count)
    ELSE IF locationChanged
            \/ old.isOffRoute # new.isOffRoute
            \/ old.isRerouting # new.isRerouting
            \/ old.destination # new.destination
         THEN IF new.isOffRoute /\ ~new.isRerouting /\ currentLocation # NoLocation
              THEN count + 1 ELSE count
         ELSE count

\* the number of pending timeouts after the reroute debounce effect: the
\* cleanup and the effect clear the timeout that rerouteTimeoutRef holds
\* (pending) before setTimeout is called again
PendingTimeouts(old, new, count, pending, currentLocation, locationChanged) ==
    LET cleared == IF pending # NoTimer THEN count - 1 ELSE count
    IN IF ~isActiveNavigation(new) THEN cleared
       ELSE IF locationChanged
               \/ old.isOffRoute # new.isOffRoute
               \/ old.isRerouting # new.isRerouting
               \/ old.destination # new.destination
            THEN IF new.isOffRoute /\ ~new.isRerouting /\ currentLocation # NoLocation
                 THEN cleared + 1 ELSE cleared
            ELSE count

\* handleReroute without the in-flight guard
RerouteBlocked_NoGuard(n, ref) == n.destination = "none"

\* handleReroute returns at once without a destination or while the
\* instance's earlier call has not finished
RerouteBlocked(n, ref) == n.destination = "none" \/ ref

\* whether the location watcher effect hands currentLocation to
\* processLocationUpdate and the arrival test ends the session
Processes(n, last, currentLocation) ==
    /\ currentLocation # NoLocation
    /\ ~(last.timestamp = currentLocation.timestamp /\ last.point = currentLocation.point)

Arrives(n, last, currentLocation) ==
    /\ Processes(n, last, currentLocation)
    /\ n.route # "none"
    /\ HasArrived(n, currentLocation.point)

\* currentLocation against the sample last: the first one of the view, the
\* same in timestamp and coordinates, one with an older timestamp, or another
Order(last, currentLocation) ==
    IF last = NoLocation THEN "first"
    ELSE IF last.timestamp = currentLocation.timestamp
            /\ last.point = currentLocation.point THEN "same"
    ELSE IF currentLocation.timestamp < last.timestamp THEN "older"
    ELSE "other"

\* an event without a route argument
NoArg == [route |-> "none", destination |-> "none", origin |-> NoPoint,
          session |-> 0]

\* one provider operation applied to the state from, giving the state to
Op(name, from, to) == <<name, from.mode, to.mode>>

\* bookkeeping of the history variables and of the off-route age
Record(event, n) ==
    /\ ev' = event
    /\ pre' = nav
    /\ preTimer' = timer
    /\ offAge' = IF n.isOffRoute /\ nav.isOffRoute THEN offAge ELSE 0
    /\ failed' = IF ~isActiveNavigation(n) THEN FALSE
                 ELSE IF event = "failure" THEN TRUE
                 ELSE IF event \in {"start", "request", "response"} THEN FALSE
                 ELSE failed
    /\ UNCHANGED <<polylineCall, tripStorage>>

----------------------------------------------------------------------------
(* Events *)

Init ==
    /\ nav = initialNavigationState
    /\ position = NoLocation
    /\ session = 0
    /\ lastProcessed = NoLocation
    /\ timer = NoTimer
    /\ isReroutingRef = FALSE
    /\ requests = <<>>
    /\ token \in BOOLEAN
    /\ offAge = 0
    /\ arrivals = 0
    /\ ev = "init"
    /\ pre = initialNavigationState
    /\ preTimer = NoTimer
    /\ order = "none"
    /\ arg = NoArg
    /\ trail = <<>>
    /\ timeouts = 0
    /\ failed = FALSE
    /\ polyline = <<>>
    /\ probe = NoPoint
    /\ measured = NoPoint
    /\ storage = <<>>
    /\ storageBefore = <<>>

\* SelectedLocationPanel.handleStart: setPreviewRoute, then startActiveNavigation
\* of the same render; when the mode becomes active Home mounts a new
\* ActiveNavigationView, whose effects process the current position
handleStart(route, destination, origin) ==
    /\ ~isActiveNavigation(nav)
    /\ session < MaxSessions
    /\ \E n1 \in {setPreviewRoute(route, destination, origin)} :
       \E n2 \in {startActiveNavigation(nav, n1)} :
       \E n3 \in {IF isActiveNavigation(n2)
                  THEN WatchLocation(n2, NoLocation, position) ELSE n2} :
          /\ nav' = n3
          /\ session' = IF isActiveNavigation(n2) THEN session + 1 ELSE session
          /\ lastProcessed' = IF isActiveNavigation(n3) THEN position ELSE NoLocation
          /\ timer' = RerouteEffect(n2, n3, NoTimer, position, FALSE)
          /\ timeouts' = PendingTimeouts(n2, n3, timeouts, NoTimer, position, FALSE)
          /\ isReroutingRef' = FALSE
          /\ arrivals' = IF ~isActiveNavigation(n2) THEN arrivals
                         ELSE IF Arrives(n2, NoLocation, position) THEN 1 ELSE 0
          /\ Record(IF startActiveNavigationThrows(nav) THEN "invalidTransition"
                    ELSE "start", n3)
          /\ trail' = <<Op("setPreviewRoute", nav, n1),
                        Op("startActiveNavigation", n1, n2)>>
                       \o (IF isActiveNavigation(n2) /\ Processes(n2, NoLocation, position)
                           THEN <<Op(IF Arrives(n2, NoLocation, position)
                                     THEN "endNavigation"
                                     ELSE "updateNavigationProgress", n2, n3)>>
                           ELSE <<>>)
    /\ arg' = [route |-> route, destination |-> destination, origin |-> origin,
               session |-> 0]
    /\ order' = "none"
    /\ UNCHANGED <<position, requests, token>>

\* Home.handleLocationUpdate: setPosition; a mounted ActiveNavigationView
\* re-renders, re-runs the debounce effect and the location watcher effect
handleLocationUpdate(location) ==
    /\ position' = location
    /\ IF isActiveNavigation(nav)
       THEN \E n1 \in {WatchLocation(nav, lastProcessed, location)} :
               /\ nav' = n1
               /\ lastProcessed' = IF isActiveNavigation(n1) THEN location ELSE NoLocation
               /\ timer' = RerouteEffect(nav, n1, timer, location, TRUE)
               /\ timeouts' = PendingTimeouts(nav, n1, timeouts, timer, location, TRUE)
               /\ isReroutingRef' = (isActiveNavigation(n1) /\ isReroutingRef)
               /\ arrivals' = IF Arrives(nav, lastProcessed, location)
                              THEN arrivals + 1 ELSE arrivals
               /\ Record(IF Arrives(nav, lastProcessed, location) THEN "arrive"
                         ELSE IF Processes(nav, lastProcessed, location) THEN "sample"
                         ELSE "duplicate", n1)
               /\ trail' = IF Processes(nav, lastProcessed, location)
                            THEN <<Op(IF Arrives(nav, lastProcessed, location)
                                      THEN "endNavigation"
                                      ELSE "updateNavigationProgress", nav, n1)>>
                            ELSE <<>>
       ELSE /\ UNCHANGED <<nav, lastProcessed, timer, timeouts, isReroutingRef,
                           arrivals>>
            /\ Record("unheard", nav)
            /\ trail' = <<>>
    /\ arg' = NoArg
    /\ order' = IF isActiveNavigation(nav) THEN Order(lastProcessed, location)
                ELSE "none"
    /\ UNCHANGED <<session, requests, token>>

\* ActiveNavigationView.handleEndNavigation (the End button)
handleEndNavigation ==
    /\ isActiveNavigation(nav)
    /\ nav' = endNavigation(nav)
    /\ lastProcessed' = IF isActiveNavigation(endNavigation(nav))
                        THEN lastProcessed ELSE NoLocation
    /\ timer' = RerouteEffect(nav, endNavigation(nav), timer, position, FALSE)
    /\ timeouts' = PendingTimeouts(nav, endNavigation(nav), timeouts, timer,
                                   position, FALSE)
    /\ isReroutingRef' = (isActiveNavigation(endNavigation(nav)) /\ isReroutingRef)
    /\ Record("cancel", endNavigation(nav))
    /\ trail' = <<Op("endNavigation", nav, endNavigation(nav))>>
    /\ arg' = NoArg
    /\ order' = "none"
    /\ UNCHANGED <<position, session, requests, token, arrivals>>

\* the timeout of the debounce effect expires: handleReroute up to its await
handleReroute ==
    /\ timer = 0
    /\ IF RerouteBlocked(nav, isReroutingRef)
       THEN /\ timer' = NoTimer
            /\ timeouts' = timeouts - 1
            /\ Record("fire", nav)
            /\ trail' = <<>>
            /\ UNCHANGED <<nav, isReroutingRef, requests>>
       ELSE IF ~token
       THEN LET n1 == setRerouting(setRerouting(nav, TRUE), FALSE)
            IN /\ nav' = n1
               /\ timer' = RerouteEffect(nav, n1, NoTimer, position, FALSE)
               /\ timeouts' = PendingTimeouts(nav, n1, timeouts - 1, NoTimer,
                                              position, FALSE)
               /\ Record("notoken", n1)
               /\ trail' = <<Op("setRerouting", nav, setRerouting(nav, TRUE)),
                             Op("setRerouting", setRerouting(nav, TRUE), n1)>>
               /\ UNCHANGED <<isReroutingRef, requests>>
       ELSE LET n1 == setRerouting(nav, TRUE)
            IN /\ nav' = n1
               /\ isReroutingRef' = TRUE
               /\ requests' = Append(requests, [session |-> session,
                                                destination |-> nav.destination])
               /\ timer' = RerouteEffect(nav, n1, NoTimer, position, FALSE)
               /\ timeouts' = PendingTimeouts(nav, n1, timeouts - 1, NoTimer,
                                              position, FALSE)
               /\ Record("request", n1)
               /\ trail' = <<Op("setRerouting", nav, n1)>>
    /\ arg' = NoArg
    /\ order' = "none"
    /\ UNCHANGED <<position, session, lastProcessed, token, arrivals>>

\* handleReroute without the finally block: a failed call leaves the
\* rerouting flag as it is
RerouteResult_NoFinally(n, newRoute) ==
    IF newRoute # "none" THEN setRerouting(updateRoute(n, newRoute), FALSE)
    ELSE n

\* the navigationState after handleReroute resumes with the result of
\* calculateRoute: newRoute is a route id, or "none" for a failure
RerouteResult(n, newRoute) ==
    IF newRoute # "none" THEN setRerouting(updateRoute(n, newRoute), FALSE)
    ELSE setRerouting(n, FALSE)

Remove(seq, i) == SubSeq(seq, 1, i - 1) \o SubSeq(seq, i + 1, Len(seq))

\* calculateRoute of the i-th pending call resolves and handleReroute resumes
\* after its await
rerouteResponse(i, newRoute) ==
    /\ i \in 1..Len(requests)
    /\ requests' = Remove(requests, i)
    /\ \E n1 \in {RerouteResult(nav, newRoute)} :
          /\ nav' = n1
          /\ timer' = RerouteEffect(nav, n1, timer, position, FALSE)
          /\ timeouts' = PendingTimeouts(nav, n1, timeouts, timer, position, FALSE)
          /\ Record(IF newRoute # "none" THEN "response" ELSE "failure", n1)
          /\ trail' = IF newRoute # "none"
                       THEN <<Op("updateRoute", nav, updateRoute(nav, newRoute)),
                              Op("setRerouting", updateRoute(nav, newRoute), n1)>>
                       ELSE <<Op("setRerouting", nav, n1)>>
    /\ arg' = [NoArg EXCEPT !.route = newRoute, !.session = requests[i].session]
    /\ order' = "none"
    /\ isReroutingRef' = IF isActiveNavigation(nav) /\ requests[i].session = session
                         THEN FALSE ELSE isReroutingRef
    /\ UNCHANGED <<position, session, lastProcessed, token, arrivals>>

\* one second passes; a timeout that is due expires before time moves on
Tick ==
    /\ timer # 0
    /\ timer' = IF timer > 0 THEN timer - 1 ELSE timer
    /\ offAge' = IF nav.isOffRoute /\ offAge < AgeCap THEN offAge + 1 ELSE offAge
    /\ ev' = "tick"
    /\ pre' = nav
    /\ preTimer' = timer
    /\ order' = "none"
    /\ arg' = NoArg
    /\ trail' = <<>>
    /\ UNCHANGED <<nav, position, session, lastProcessed, isReroutingRef,
                   requests, token, arrivals, timeouts, failed, polylineCall,
                   tripStorage>>

Start ==
    \E d \in Destinations : \E r \in RoutesTo(d) : \E o \in Origins :
        handleStart(r, d, o)

Sample == \E l \in Samples : handleLocationUpdate(l)

Response ==
    \E i \in 1..Len(requests) :
        \E r \in RoutesTo(requests[i].destination) \cup {"none"} :
            rerouteResponse(i, r)

Next ==
    \/ Start
    \/ Sample
    \/ handleEndNavigation
    \/ handleReroute
    \/ Response
    \/ Tick

Spec == Init /\ [][Next]_vars

\* calculateRoute settles every call: fetch resolves or rejects, and every
\* failure is caught and returned as null
LiveSpec == Init /\ [][Next]_vars /\ WF_vars(Response)

----------------------------------------------------------------------------
(* distanceToRouteSegment called on its own *)

MaxVertices == 3

\* the polylines of up to MaxVertices vertices
Polylines == UNION {[1..n -> Points] : n \in 0..MaxVertices}

PolylineInit ==
    /\ nav = initialNavigationState
    /\ position = NoLocation
    /\ session = 0
    /\ lastProcessed = NoLocation
    /\ timer = NoTimer
    /\ isReroutingRef = FALSE
    /\ requests = <<>>
    /\ token = TRUE
    /\ offAge = 0
    /\ arrivals = 0
    /\ ev = "init"
    /\ pre = initialNavigationState
    /\ preTimer = NoTimer
    /\ order = "none"
    /\ arg = NoArg
    /\ trail = <<>>
    /\ timeouts = 0
    /\ failed = FALSE
    /\ polyline \in Polylines
    /\ probe \in Points
    /\ measured = NoPoint
    /\ storage = <<>>
    /\ storageBefore = <<>>

\* the call distanceToRouteSegment(probe, polyline) returns
Measure ==
    /\ measured = NoPoint
    /\ measured' = distanceToRouteSegment(probe, polyline)
    /\ UNCHANGED <<nav, position, session, lastProcessed, timer, isReroutingRef,
                   requests, token, offAge, arrivals, ev, pre, preTimer, order,
                   arg, trail, timeouts, failed, polyline, probe, tripStorage>>

PolylineSpec == PolylineInit /\ [][Measure]_vars

----------------------------------------------------------------------------
(* Trip storage (lib/storage) *)

MaxStartTime == 3
MaxTripSize == 3

\* the limit of 5 MB, in units of 1 MB like the sizes of the trips
MAX_STORAGE_SIZE == 5

\* a trip is its startTime and the length of its JSON text
Trips == [startTime : 1..MaxStartTime, size : 1..MaxTripSize]

RECURSIVE getStorageSize(_)
getStorageSize(trips) ==
    IF trips = <<>> THEN 0 ELSE Head(trips).size + getStorageSize(Tail(trips))

\* trips.sort by startTime: a stable insertion into the sorted rest
RECURSIVE InsertByStartTime(_, _)
InsertByStartTime(trip, sorted) ==
    IF sorted = <<>> THEN <<trip>>
    ELSE IF trip.startTime <= Head(sorted).startTime THEN <<trip>> \o sorted
    ELSE <<Head(sorted)>> \o InsertByStartTime(trip, Tail(sorted))

RECURSIVE SortByStartTime(_)
SortByStartTime(trips) ==
    IF trips = <<>> THEN <<>>
    ELSE InsertByStartTime(Head(trips), SortByStartTime(Tail(trips)))

\* the while loop of saveTrip; stored is what localStorage holds, which
\* trips.shift() does not change
RECURSIVE ShiftWhileFull(_, _, _)
ShiftWhileFull(trips, stored, trip) ==
    IF getStorageSize(stored) + trip.size > MAX_STORAGE_SIZE /\ Len(trips) > 0
    THEN ShiftWhileFull(Tail(trips), stored, trip)
    ELSE trips

\* the value saveTrip writes to localStorage
saveTrip(stored, trip) ==
    LET trips == IF getStorageSize(stored) + trip.size > MAX_STORAGE_SIZE
                 THEN ShiftWhileFull(SortByStartTime(stored), stored, trip)
                 ELSE stored
    IN Append(trips, trip)

TripInit ==
    /\ nav = initialNavigationState
    /\ position = NoLocation
    /\ session = 0
    /\ lastProcessed = NoLocation
    /\ timer = NoTimer
    /\ isReroutingRef = FALSE
    /\ requests = <<>>
    /\ token = TRUE
    /\ offAge = 0
    /\ arrivals = 0
    /\ ev = "init"
    /\ pre = initialNavigationState
    /\ preTimer = NoTimer
    /\ order = "none"
    /\ arg = NoArg
    /\ trail = <<>>
    /\ timeouts = 0
    /\ failed = FALSE
    /\ polyline = <<>>
    /\ probe = NoPoint
    /\ measured = NoPoint
    /\ storage = <<>>
    /\ storageBefore = <<>>

SaveTrip ==
    \E trip \in Trips :
        /\ storage' = saveTrip(storage, trip)
        /\ storageBefore' = storage
        /\ UNCHANGED <<nav, position, session, lastProcessed, timer, isReroutingRef,
                       requests, token, offAge, arrivals, ev, pre, preTimer, order,
                       arg, trail, timeouts, failed, polylineCall>>

TripSpec == TripInit /\ [][SaveTrip]_vars

----------------------------------------------------------------------------
(* Helpers of the properties *)

SampleProcessed == ev \in {"sample", "arrive"}

OwnRequests == {i \in 1..Len(requests) : requests[i].session = session}

\* the step-advance condition of the sample in position, read off the state
\* before it was processed
AdvanceDue ==
    /\ Abs(position.point - RouteOf(pre.route).steps[pre.currentStepIndex + 1].maneuver)
           < STEP_ADVANCE_THRESHOLD
    /\ pre.currentStepIndex + 1 < Len(RouteOf(pre.route).steps)

\* the arrival condition of the sample in position, read off the state
\* before it was processed
ArrivalDue ==
    /\ pre.currentStepIndex + 1 >= Len(RouteOf(pre.route).steps)
    /\ Abs(position.point - DestCoordinates(pre.destination)) < ARRIVAL_THRESHOLD

----------------------------------------------------------------------------
(* Properties *)

\* C1: a session begun from the idle initial state by setPreviewRoute and
\* startActiveNavigation in one user action ends in mode active at step 0,
\* with the first step's distance to go to the next maneuver and the
\* route's total distance remaining.
C1_BeginFromIdleIsActive ==
    (ev = "start" /\ pre = initialNavigationState) =>
        /\ nav.mode = "active"
        /\ nav.currentStepIndex = 0
        /\ nav.distanceToNextManeuver = RouteOf(nav.route).steps[1].distance
        /\ nav.remainingDistance = RouteOf(nav.route).distance

\* C2: a reroute response handled after the session has ended is discarded:
\* the navigation state is the idle initial state before and after it.
C2_LateResponseDiscarded ==
    (ev \in {"response", "failure"} /\ pre = initialNavigationState) =>
        nav = initialNavigationState

\* C3: the debounce timeout set when the off-route flag became true is not
\* restarted by later samples: once the flag has been true for 3 seconds
\* with no reroute in flight, the timeout is due and handleReroute runs.
C3_TimerDueAfterThreeSeconds ==
    (/\ isActiveNavigation(nav)
     /\ nav.isOffRoute
     /\ ~nav.isRerouting
     /\ OwnRequests = {}
     /\ preTimer # NoTimer
     /\ offAge >= DebounceSeconds) => timer = 0

\* C4: a reroute request is issued only after the off-route flag has been
\* true without a break for at least 3 seconds; a timeout is pending only
\* while the flag is true and never expires earlier than 3 seconds after the
\* flag became true, so a flag that turns false sooner causes no request.
C4_RequestOnlyAfterDebounce ==
    /\ ev = "request" => (pre.isOffRoute /\ offAge >= DebounceSeconds)
    /\ timer # NoTimer => (nav.isOffRoute /\ offAge + timer >= DebounceSeconds)
    /\ ~nav.isOffRoute => timer = NoTimer

\* the flag turned false with a timeout pending for less than 3 seconds
C4_Witness ==
    /\ ev = "sample"
    /\ pre.isOffRoute
    /\ ~nav.isOffRoute
    /\ preTimer \in 1..(DebounceSeconds - 1)
    /\ timer = NoTimer

\* C5 as stated: at most one reroute request is in flight at any time.
C5_OneRequestInFlight == Len(requests) <= 1

\* C5 amended: at most one reroute request of one navigation session (one
\* mounted ActiveNavigationView) is in flight at any time, and while the
\* mounted view's request is unresolved its in-flight guard is set.
C5_OneRequestPerSession ==
    /\ \A i, j \in 1..Len(requests) :
           requests[i].session = requests[j].session => i = j
    /\ (isActiveNavigation(nav) /\ OwnRequests # {}) => isReroutingRef

\* the timeout expired while the session's request was unresolved, and
\* handleReroute returned without a second request
C5_Witness ==
    /\ ev = "fire"
    /\ isReroutingRef
    /\ OwnRequests # {}

C7_NoTimerAfterSessionEnd ==
    /\ ~isActiveNavigation(nav) => timer = NoTimer
    /\ ev = "request" => (pre.mode = "active" /\ nav.mode = "active")

\* a session ended, by cancel or by arrival, while a timeout was pending
C7_Witness ==
    /\ ev \in {"cancel", "arrive"}
    /\ preTimer # NoTimer
    /\ nav.mode = "idle"
    /\ timer = NoTimer

\* C8 as stated: processing one sample in active mode raises currentStepIndex
\* by exactly 1 when the sample is less than 30 m from the current step's
\* maneuver point and the step is not the last one, and leaves it unchanged
\* otherwise; it never decreases.
C8_StepIndexAdvancesByOne ==
    (SampleProcessed /\ pre.mode = "active") =>
        nav.currentStepIndex =
            IF AdvanceDue THEN pre.currentStepIndex + 1 ELSE pre.currentStepIndex

\* C8 amended: a processed sample that does not end the session by arrival
\* raises currentStepIndex by exactly 1 when it is less than 30 m from the
\* current step's maneuver point and the step is not the last one, and
\* leaves it unchanged otherwise; a sample that arrives resets it to 0.
C8_StepIndexAdvancesUnlessArrived ==
    /\ (ev = "sample" /\ pre.mode = "active") =>
           nav.currentStepIndex =
               IF AdvanceDue THEN pre.currentStepIndex + 1 ELSE pre.currentStepIndex
    /\ ev = "arrive" => nav.currentStepIndex = 0

\* a sample within 30 m of two consecutive maneuver points advanced one step
C8_Witness ==
    /\ ev = "sample"
    /\ pre.route = "B"
    /\ pre.currentStepIndex = 0
    /\ position.point = 389
    /\ nav.currentStepIndex = 1

\* C9: a sample processed in active mode at the last step and less than
\* 30 m from the destination makes the state the idle initial state, with
\* nothing else of the sample applied; a cancel gives the same state.
C9_ArrivalAndCancelResetToIdle ==
    /\ (SampleProcessed /\ pre.mode = "active" /\ ArrivalDue) =>
           nav = initialNavigationState
    /\ ev = "cancel" => nav = initialNavigationState

\* an arrival at the last step of a route of several steps, by a sample at
\* another point than the one of the last progress update
C9_Witness ==
    /\ ev = "arrive"
    /\ pre.mode = "active"
    /\ pre.currentStepIndex > 0
    /\ pre.origin # position.point
    /\ nav = initialNavigationState

\* C10: arrival fires once per session: it takes the mode from active to
\* idle, and a sample delivered in idle mode reaches no arrival logic and
\* leaves the state as it is.
C10_ArrivalFiresOnce ==
    /\ arrivals <= 1
    /\ ev = "arrive" => (pre.mode = "active" /\ nav.mode = "idle")
    /\ (ev \in {"sample", "arrive", "duplicate", "unheard"} /\ pre.mode = "idle") =>
           (ev = "unheard" /\ nav = pre)

\* a sample delivered in idle mode after the last session ended by arrival
C10_Witness ==
    /\ ev = "unheard"
    /\ arrivals = 1
    /\ nav.mode = "idle"
    /\ pre.mode = "idle"
    /\ session >= 1

ModeEdges ==
    {<<"setPreviewRoute", "idle", "preview">>,
     <<"startActiveNavigation", "preview", "active">>,
     <<"endNavigation", "active", "idle">>}

\* C13: every provider operation either keeps the mode or takes one of the
\* edges idle -> preview (setPreviewRoute), preview -> active
\* (startActiveNavigation), active -> idle (endNavigation on arrival or
\* cancel); updateRoute keeps the mode active; no operation moves the mode
\* from idle to active or from active to preview.
C13_ModeEdges ==
    \A i \in DOMAIN trail :
        /\ trail[i][2] # trail[i][3] => trail[i] \in ModeEdges
        /\ (trail[i][1] = "updateRoute" /\ trail[i][2] = "active") => trail[i][3] = "active"
        /\ <<trail[i][2], trail[i][3]>> \notin {<<"idle", "active">>, <<"active", "preview">>}

\* one press of Start in the idle state that ends in mode active: the mode
\* passes through preview between the two operations of the handler
C13_Witness ==
    /\ ev = "start"
    /\ pre.mode = "idle"
    /\ nav.mode = "active"
    /\ trail[1] = <<"setPreviewRoute", "idle", "preview">>
    /\ trail[2] = <<"startActiveNavigation", "preview", "active">>

\* a sample was delivered to the mounted ActiveNavigationView
SampleDelivered == ev \in {"sample", "arrive", "duplicate"}

\* the sample in position is older than the sample the view processed last
OlderSample == order = "older"

\* C14 (as claimed): a sample whose timestamp is older than that of the last
\* processed sample is ignored: the navigation state and the last processed
\* sample stay as they were.
C14_OlderSampleIgnored ==
    (SampleDelivered /\ OlderSample) => (nav = pre /\ lastProcessed # position)

\* C14: a sample whose timestamp is older than that of the last processed
\* sample is processed like any other sample: it becomes the last processed
\* sample and either ends the session by arrival or updates the progress
\* with its coordinates.
C14_OlderSampleProcessed ==
    (SampleDelivered /\ OlderSample) =>
        /\ ev \in {"sample", "arrive"}
        /\ ev = "arrive" => (nav = initialNavigationState /\ lastProcessed = NoLocation)
        /\ ev = "sample" => (nav.origin = position.point /\ lastProcessed = position)

\* an older sample moved the navigation state
C14_Witness ==
    /\ ev = "sample"
    /\ OlderSample
    /\ nav # pre
    /\ nav.currentStepIndex = pre.currentStepIndex + 1

\* C15: a sample delivered to the mounted view with the timestamp and the
\* coordinates of the sample the view processed last is discarded: the
\* navigation state is unchanged and no provider operation runs, whatever
\* renders (ticks, timer fires, reroute requests and responses) lie between
\* the two deliveries.
C15_DuplicateDiscarded ==
    (SampleDelivered /\ order = "same") =>
        /\ ev = "duplicate"
        /\ nav = pre
        /\ trail = <<>>
        /\ lastProcessed = position

\* the duplicate arrives after the view re-rendered with a new route, on
\* which processing the sample again would have advanced the step
C15_Witness ==
    /\ ev = "duplicate"
    /\ order = "same"
    /\ nav = pre
    /\ processLocationUpdate(pre, position) # pre
    /\ nav.currentStepIndex = 0
    /\ Abs(position.point - RouteOf(nav.route).steps[1].maneuver) < STEP_ADVANCE_THRESHOLD

\* the distances of the steps after the 0-based index i of route
RECURSIVE DistanceAfter(_, _)
DistanceAfter(route, i) ==
    IF i + 1 >= Len(RouteOf(route).steps) THEN 0
    ELSE RouteOf(route).steps[i + 2].distance + DistanceAfter(route, i + 1)

\* the durations of the steps from the 0-based index i of route onward
RECURSIVE DurationFrom(_, _)
DurationFrom(route, i) ==
    IF i >= Len(RouteOf(route).steps) THEN 0
    ELSE RouteOf(route).steps[i + 1].duration + DurationFrom(route, i + 1)

\* the sample in position advanced the step index by one
StepAdvanced ==
    /\ ev = "sample"
    /\ nav.route = pre.route
    /\ nav.currentStepIndex = pre.currentStepIndex + 1

\* C16 (as claimed): when a sample advances the step index from i to i + 1,
\* the remaining distance is the sum of the distances of the steps from
\* i + 1 onward plus the measured distance from the sample to the maneuver
\* of step i (611 m for the sample 11 m from the first maneuver of route A).
C16_AdvanceAddsMeasuredDistance ==
    StepAdvanced =>
        nav.remainingDistance =
            DistanceAfter(pre.route, pre.currentStepIndex)
            + Abs(position.point
                  - RouteOf(pre.route).steps[pre.currentStepIndex + 1].maneuver)

\* C16: when a sample advances the step index from i to i + 1, the distance
\* to the next maneuver is the full distance of step i + 1 and the remaining
\* distance is the sum of the distances of the steps from i + 1 onward (600 m
\* for the sample 11 m from the first maneuver of route A); the measured
\* distance to the maneuver of step i is not added.
C16_AdvanceSumsLaterSteps ==
    StepAdvanced =>
        /\ nav.distanceToNextManeuver =
               RouteOf(pre.route).steps[pre.currentStepIndex + 2].distance
        /\ nav.remainingDistance = DistanceAfter(pre.route, pre.currentStepIndex)
        /\ (pre.route = "A" /\ position.point = 389) => nav.remainingDistance = 600

\* the sample 11 m from the first maneuver of route A advanced the step
C16_Witness ==
    /\ StepAdvanced
    /\ pre.route = "A"
    /\ pre.currentStepIndex = 0
    /\ position.point = 389
    /\ nav.remainingDistance = 600

\* the last event processed a sample that did not arrive, in a mounted view
\* or in the view the event mounted
ProcessedWithoutArrival ==
    \/ ev = "sample"
    \/ /\ ev = "start"
       /\ Len(trail) = 3
       /\ trail[3][1] = "updateNavigationProgress"

\* C17: after every processed sample that does not arrive, the remaining
\* distance is the distance to the next maneuver plus the distances of the
\* steps after the current one, and the remaining duration is the sum of the
\* durations of the steps from the current one onward; on the route with
\* step distances 100, 200, 300 a sample at the maneuver of step 0 gives
\* step index 1 and a remaining distance of at most 500.
C17_RemainingMetrics ==
    ProcessedWithoutArrival =>
        /\ nav.remainingDistance =
               nav.distanceToNextManeuver + DistanceAfter(nav.route, nav.currentStepIndex)
        /\ nav.remainingDuration = DurationFrom(nav.route, nav.currentStepIndex)
        /\ (/\ ev = "sample"
            /\ pre.route = "B"
            /\ pre.currentStepIndex = 0
            /\ position.point = RouteOf("B").steps[1].maneuver) =>
               (nav.currentStepIndex = 1 /\ nav.remainingDistance <= 500)

\* the sample at the maneuver of step 0 of the route with steps 100, 200, 300
C17_Witness ==
    /\ ev = "sample"
    /\ pre.route = "B"
    /\ pre.currentStepIndex = 0
    /\ position.point = RouteOf("B").steps[1].maneuver
    /\ nav.currentStepIndex = 1
    /\ nav.remainingDistance = 500
    /\ nav.remainingDuration = 70

\* the distance from point to the nearest vertex of geometry
NearestVertexDistance(point, geometry) ==
    LET distances == {Abs(point - geometry[i]) : i \in DOMAIN geometry}
    IN CHOOSE d \in distances : \A e \in distances : d <= e

\* C18: after every processed sample that does not arrive, the off-route
\* flag is true exactly when the sample is more than 50 m from the nearest
\* vertex of the route geometry, whatever the flag was before and whether or
\* not a reroute is in progress.
C18_OffRouteFollowsDistance ==
    ProcessedWithoutArrival =>
        (nav.isOffRoute <=>
            NearestVertexDistance(position.point, RouteOf(nav.route).geometry)
                > OFF_ROUTE_THRESHOLD)

\* a sample back on the route clears the flag while a reroute is in progress
C18_Witness ==
    /\ ev = "sample"
    /\ pre.isOffRoute
    /\ pre.isRerouting
    /\ nav.isRerouting
    /\ ~nav.isOffRoute
    /\ NearestVertexDistance(position.point, RouteOf(nav.route).geometry)
           <= OFF_ROUTE_THRESHOLD

\* C19: updateRoute(newRoute), applied in whatever state the reroute
\* response finds, sets the route to newRoute, the step index to 0, the
\* distance to the next maneuver to the first step's distance, the off-route
\* and rerouting flags to false and the remaining distance and duration to
\* the new route's totals, and leaves the destination and the mode as they
\* were.
C19_UpdateRouteResets ==
    ev = "response" =>
        /\ nav.route = arg.route
        /\ nav.currentStepIndex = 0
        /\ nav.distanceToNextManeuver = RouteOf(arg.route).steps[1].distance
        /\ ~nav.isOffRoute
        /\ ~nav.isRerouting
        /\ nav.remainingDistance = RouteOf(arg.route).distance
        /\ nav.remainingDuration = RouteOf(arg.route).duration
        /\ nav.destination = pre.destination
        /\ nav.mode = pre.mode

\* a new route replaces the route of a session that had advanced and was
\* off-route with the reroute in progress
C19_Witness ==
    /\ ev = "response"
    /\ pre.mode = "active"
    /\ pre.currentStepIndex > 0
    /\ pre.isOffRoute
    /\ pre.isRerouting
    /\ nav.route # pre.route
    /\ nav.currentStepIndex = 0

\* C20: setPreviewRoute(route, destination, origin), called in whatever
\* state Start is pressed, stores the three arguments and sets the mode to
\* preview, the step index to 0, the distance to the next maneuver to the
\* first step's distance, both flags to false and the remaining distance and
\* duration to the route's totals.  The stored state is read off the state
\* after the handler, where startActiveNavigation may have changed the mode
\* and, if the mounted view processed a sample, the progress fields.
C20_PreviewRouteStored ==
    ev = "start" =>
        /\ trail[1] = <<"setPreviewRoute", pre.mode, "preview">>
        /\ Len(trail) = 2 =>
              /\ nav.mode = trail[2][3]
              /\ nav.route = arg.route
              /\ nav.destination = arg.destination
              /\ nav.origin = arg.origin
              /\ nav.currentStepIndex = 0
              /\ nav.distanceToNextManeuver = RouteOf(arg.route).steps[1].distance
              /\ ~nav.isOffRoute
              /\ ~nav.isRerouting
              /\ nav.remainingDistance = RouteOf(arg.route).distance
              /\ nav.remainingDuration = RouteOf(arg.route).duration
        /\ (Len(trail) = 3 /\ nav.mode = "active") =>
              /\ nav.route = arg.route
              /\ nav.destination = arg.destination

\* Start pressed in a preview state holding another route and destination
C20_Witness ==
    /\ ev = "start"
    /\ Len(trail) = 2
    /\ pre.mode = "preview"
    /\ pre.route # arg.route
    /\ pre.destination # arg.destination
    /\ pre.origin # arg.origin
    /\ nav.route = arg.route
    /\ nav.destination = arg.destination

\* C21: after a reroute request has failed, the next processed sample that
\* is more than 50 m from the route arms the debounce timeout of 3 seconds;
\* once the traveler has then been off-route for 3 seconds the timeout is
\* due and the next request is issued; while the samples after the failure
\* are on-route, no timeout is pending and so no request is issued.
C21_RetryAfterFailure ==
    /\ (failed /\ ev = "sample" /\ nav.isOffRoute) => timer = DebounceSeconds
    /\ (/\ failed
        /\ nav.isOffRoute
        /\ ~nav.isRerouting
        /\ OwnRequests = {}
        /\ preTimer # NoTimer
        /\ offAge >= DebounceSeconds) => timer = 0
    /\ (failed /\ ~nav.isOffRoute) => timer = NoTimer

\* the fields that neither setOffRoute nor updateNavigationProgress writes
\* are as before the sample
SampleFrame ==
    /\ nav.isRerouting = pre.isRerouting
    /\ nav.mode = pre.mode
    /\ nav.route = pre.route
    /\ nav.destination = pre.destination

C23_MinimumOverVertices ==
    measured # NoPoint =>
        measured = IF Len(polyline) < 2 THEN Infinity
                   ELSE NearestVertexDistance(probe, polyline)

\* the nearest vertex is the last one, which only ends a segment
C23_Witness ==
    /\ measured # NoPoint
    /\ Len(polyline) = MaxVertices
    /\ measured = Abs(probe - polyline[Len(polyline)])
    /\ \A i \in 1..(Len(polyline) - 1) : Abs(probe - polyline[i]) > measured

\* the trip saved last
SavedTrip == storage[Len(storage)]

\* the stored trips at least as new as the trip at position i of the storage
\* before the last save
NotOlder(i) ==
    {j \in DOMAIN storageBefore :
        storageBefore[j].startTime >= storageBefore[i].startTime}

RECURSIVE SizeOf(_)
SizeOf(indices) ==
    IF indices = {} THEN 0
    ELSE LET j == CHOOSE k \in indices : TRUE
         IN storageBefore[j].size + SizeOf(indices \ {j})

\* C24: when the stored trips and the new trip together exceed 5 MB,
\* saveTrip removes stored trips oldest first and stops as soon as the new
\* trip fits: a stored trip that fits together with all stored trips not
\* older than it and the new trip is still stored after the save.
C24_KeepsNewerTripsThatFit ==
    (storage # <<>> /\ getStorageSize(storageBefore) + SavedTrip.size > MAX_STORAGE_SIZE) =>
        \A i \in DOMAIN storageBefore :
            SizeOf(NotOlder(i)) + SavedTrip.size <= MAX_STORAGE_SIZE =>
                \E k \in 1..(Len(storage) - 1) : storage[k] = storageBefore[i]

\* C25: the arrival test follows the step advance within one sample: a
\* processed sample that advances the step index onto the last step and is
\* less than 30 m from the destination ends the session itself.
C25_ArrivalAfterAdvance ==
    (/\ SampleProcessed
     /\ AdvanceDue
     /\ pre.currentStepIndex + 2 = Len(RouteOf(pre.route).steps)
     /\ Abs(position.point - DestCoordinates(pre.destination)) < ARRIVAL_THRESHOLD) =>
        (ev = "arrive" /\ nav = initialNavigationState)

C28_ModeImpliesRoute ==
    /\ nav.mode = "active" => (nav.route # "none" /\ nav.destination # "none")
    /\ nav.mode = "idle" => (nav.route = "none" /\ nav.destination = "none")

\* the last event was the response to a request of an earlier session, and
\* it found a later session active
LateResponseInNewSession ==
    /\ ev \in {"response", "failure"}
    /\ arg.session < session
    /\ pre.mode = "active"

\* C29: a reroute response is applied only to the session that issued the
\* request: a response to the request of an earlier session leaves the
\* route, the step index and the off-route and rerouting flags of the
\* session now active as they were, and the guard of the active session is
\* still set exactly while its own request is in flight.
C29_ResponseOnlyToOwnSession ==
    LateResponseInNewSession =>
        /\ nav.route = pre.route
        /\ nav.currentStepIndex = pre.currentStepIndex
        /\ nav.isOffRoute = pre.isOffRoute
        /\ nav.isRerouting = pre.isRerouting
        /\ isReroutingRef <=> OwnRequests # {}

\* C30: at most one debounce timeout is pending at any time; a timeout is
\* pending only while the view is mounted, the off-route flag is true, the
\* rerouting flag is false and a current location exists; and an event that
\* changes one of these conditions or delivers a location leaves either no
\* timeout or a newly set one of 3 seconds, the earlier one being cleared.
C30_SingleDebounceTimer ==
    /\ timeouts <= 1
    /\ timeouts = 1 <=> timer # NoTimer
    /\ timer # NoTimer =>
           /\ isActiveNavigation(nav)
           /\ nav.isOffRoute
           /\ ~nav.isRerouting
           /\ position # NoLocation
    /\ (\/ nav.isOffRoute # pre.isOffRoute
        \/ nav.isRerouting # pre.isRerouting
        \/ SampleDelivered) => timer \in {NoTimer, DebounceSeconds}

\* a sample delivered while a timeout was pending and partly elapsed: the
\* timeout is cleared and one new timeout is set
C30_Witness ==
    /\ SampleDelivered
    /\ preTimer \in 0..(DebounceSeconds - 1)
    /\ timer = DebounceSeconds
    /\ timeouts = 1

====
